---- MODULE Spec2Model ----
(***************************************************************************)
(* A model of tfmodellib's TFModel base class (tfmodel.py): the batching   *)
(* helpers chunklist / maybe_chunked, TFModelConfig and its JSON save and  *)
(* load, the construction of a model from a config or from a checkpoint    *)
(* path, the summary methods, the train / train_step / infer loops, and    *)
(* checkpoint save / restore; and of the graph a VAE (vae.py) builds from  *)
(* its config.                                                             *)
(*                                                                         *)
(* Optional values (Python's None) are modelled as sets of at most one     *)
(* element: None is {} and a value v is {v}.                               *)
(***************************************************************************)
EXTENDS Integers, Sequences, FiniteSets, TLC

(***************************************************************************)
(* Bounds of the model.                                                    *)
(***************************************************************************)
\* longest sequence handed to chunklist / maybe_chunked
MaxLen == 4
\* largest chunk length handed to chunklist / maybe_chunked / infer
MaxChunk == 3
\* longest range(n) handed to chunklist / maybe_chunked
MaxRange == 7
\* largest batch_size handed to train()
MaxK == 2
\* largest element of a sequence handed to chunklist / maybe_chunked
MaxElem == 2
\* largest run-directory index present on disk before the model is constructed
MaxIdx == 1
\* largest number of samples handed to train() or held by the dataset
MaxN == 3
\* number of operations called on one instance
MaxCalls == 2
\* the interval a config may set as saver_interval or step_summaries_interval
Interval == 2

None == {}
Some(v) == {v}
IsNone(x) == x = {}
Val(x) == CHOOSE v \in x : TRUE

VARIABLES
    call,            \* the last call of chunklist / maybe_chunked / infer: arguments and outcome
    phase,           \* "Uninit", "Ready" (constructor returned) or "Failed" (constructor raised)
    config,          \* self.config
    graph,           \* self.graph: the dense layers build_graph defined
    global_step,     \* the epoch counter (tf.Variable global_step)
    batch_step,      \* the mini-batch counter (tf.Variable train_step)
    summaries_ind,   \* self.summaries_ind, None while the attribute is unset
    summary_fwriter, \* self.summary_fwriter: None, or the run directory it writes to
    summaries,       \* self.summaries, the registry: key -> [value, mode]
    summary_values,  \* self.summary_values: key -> [value, mode]
    last_event,      \* the last event handed to the summary file writer
    checkpoint_dir,  \* self.checkpoint_dir: None, or the run's subdirectory index
    trainset,        \* self.trainset: None, or the dataset load_data() supplied
    num_batches,     \* self.num_batches, None while the attribute is unset
    first_saved,     \* history: the config at this instance's first save() to disk
    fs_summaries,    \* the summaries root on disk: None (missing) or the set of its run directories
    fs_checkpoints,  \* the checkpoints root on disk: subdirectory index -> its content
    lastOp,          \* the last public operation called: its name, arguments and exception
    nCalls,          \* number of operations called so far
    logged           \* the levels the last operation passed to logger.log, in order

vars == <<call, phase, config, graph, global_step, batch_step, summaries_ind, summary_fwriter,
          summaries, summary_values, last_event, checkpoint_dir, trainset, num_batches, first_saved,
          fs_summaries, fs_checkpoints, lastOp, nCalls, logged>>

\* everything but the record of the last helper call
modelVars == <<phase, config, graph, global_step, batch_step, summaries_ind, summary_fwriter,
               summaries, summary_values, last_event, checkpoint_dir, trainset, num_batches, first_saved,
               fs_summaries, fs_checkpoints, lastOp, nCalls, logged>>

(***************************************************************************)
(* Python sequences: 0-based indexing and clamped slices.                  *)
(***************************************************************************)
\* values[i:j] for 0 <= i, clamped to the end of the sequence
Slice(values, i, j) ==
    LET hi == IF j > Len(values) THEN Len(values) ELSE j
    IN  IF hi <= i THEN <<>> ELSE [x \in 1..(hi - i) |-> values[i + x]]

\* range(n) as a list: <<0, 1, ..., n-1>>
Range(n) == [x \in 1..n |-> x - 1]

RECURSIVE SeqSum(_)
SeqSum(s) == IF s = <<>> THEN 0 ELSE Head(s) + SeqSum(Tail(s))

RECURSIVE SeqProd(_)
SeqProd(s) == IF s = <<>> THEN 1 ELSE Head(s) * SeqProd(Tail(s))

RECURSIVE Flatten(_)
Flatten(ss) == IF ss = <<>> THEN <<>> ELSE Head(ss) \o Flatten(Tail(ss))

(***************************************************************************)
(* chunklist(values, length): the generator's loop, from position i on.    *)
(*   for i in range(0, len(values), length):                               *)
(*       out = values[i:i+length]                                          *)
(*       if len(out) == length: yield out  else: return                    *)
(***************************************************************************)
RECURSIVE chunklist_from(_, _, _)
chunklist_from(values, length, i) ==
    IF i >= Len(values)
    THEN <<>>
    ELSE LET out == Slice(values, i, i + length)
         IN  IF Len(out) = length
             THEN <<out>> \o chunklist_from(values, length, i + length)
             ELSE <<>>

\* a chunklist that also yields the trailing partial chunk
chunklist_keep_partial(values, length) ==
    LET full == chunklist_from(values, length, 0)
    IN  IF Len(values) % length = 0
        THEN full
        ELSE Append(full, Slice(values, Len(full) * length, Len(values)))

chunklist(values, length) == chunklist_from(values, length, 0)

(***************************************************************************)
(* The functions handed to maybe_chunked.  A callable is named by a        *)
(* string; OnChunked records whether iter(on_chunked) succeeds (a sequence *)
(* of callables) or raises TypeError (one callable).                       *)
(***************************************************************************)
Callable(f) == [iterable |-> FALSE, fs |-> <<f>>]
CallableList(fs) == [iterable |-> TRUE, fs |-> fs]

Reversed(s) == [x \in 1..Len(s) |-> s[Len(s) + 1 - x]]

\* the loss the subclass hooks report: run_update_and_loss and run_loss
LossTrain == "train_loss"
LossValid == "valid_loss"
NaN == "nan"

\* run_output, the subclass hook: one output row per input row
run_output(rows) == [x \in 1..Len(rows) |-> <<"out", rows[x]>>]

\* inputs[inds] for a list of 0-based row indices
Rows(inputs, inds) == [x \in 1..Len(inds) |-> inputs[inds[x] + 1]]

infer_step(inds, inputs) == run_output(Rows(inputs, inds))

\* what train_step returns for one mini-batch: (training_loss, validation_loss)
train_step_result(validation_inputs) ==
    <<LossTrain, IF IsNone(validation_inputs) THEN NaN ELSE LossValid>>

\* the number of times one train_step calls the run_loss hook
run_loss_calls(validation_inputs) == IF IsNone(validation_inputs) THEN 0 ELSE 1

\* f(v, *args): the value a named callable returns
Apply(f, v, args) ==
    CASE f = "prod"       -> SeqProd(v)
      [] f = "sum"        -> SeqSum(v)
      [] f = "list"       -> v
      [] f = "reversed"   -> Reversed(v)
      [] f = "infer_step" -> infer_step(v, args.inputs)
      [] f = "train_step" -> train_step_result(args.validation_inputs)

(***************************************************************************)
(* maybe_chunked(values, length, on_chunked, on_not_chunked, *args):       *)
(* result and was_chunked as returned, and calls, the calls it made.       *)
(***************************************************************************)
\* a not-chunked branch that reports was_chunked = True
not_chunked_flagged(values, on_not_chunked, args) ==
    [result      |-> Apply(on_not_chunked, values, args),
     was_chunked |-> TRUE,
     calls       |-> << <<on_not_chunked, values>> >>]

\* length is None: on_not_chunked once, on the whole list
not_chunked(values, on_not_chunked, args) ==
    [result      |-> Apply(on_not_chunked, values, args),
     was_chunked |-> FALSE,
     calls       |-> << <<on_not_chunked, values>> >>]

\* a chunked branch that hands the first chunk to every call
chunked_one_first_chunk(chunks, f, args) ==
    [result      |-> [x \in 1..Len(chunks) |-> Apply(f, chunks[1], args)],
     was_chunked |-> TRUE,
     calls       |-> [x \in 1..Len(chunks) |-> <<f, chunks[1]>>]]

\* iter(on_chunked) raised TypeError: one callable, applied to every chunk
chunked_one(chunks, f, args) ==
    [result      |-> [x \in 1..Len(chunks) |-> Apply(f, chunks[x], args)],
     was_chunked |-> TRUE,
     calls       |-> [x \in 1..Len(chunks) |-> <<f, chunks[x]>>]]

\* on_chunked is a sequence of callables: per callable, its results over all
\* chunks concatenated
chunked_many(chunks, fs, args) ==
    [result      |-> [y \in 1..Len(fs) |->
                         Flatten([x \in 1..Len(chunks) |-> Apply(fs[y], chunks[x], args)])],
     was_chunked |-> TRUE,
     calls       |-> Flatten([y \in 1..Len(fs) |->
                                 [x \in 1..Len(chunks) |-> <<fs[y], chunks[x]>>]])]

maybe_chunked(values, length, on_chunked, on_not_chunked, args) ==
    IF IsNone(length)
    THEN not_chunked(values, on_not_chunked, args)
    ELSE IF ~on_chunked.iterable
         THEN chunked_one(chunklist(values, Val(length)), on_chunked.fs[1], args)
         ELSE chunked_many(chunklist(values, Val(length)), on_chunked.fs, args)

(***************************************************************************)
(* Python values a config field may hold besides None, numbers and         *)
(* strings: lists and tuples (of numbers or of strings), callables and     *)
(* objects json cannot serialize.  A callable has an identity, and a name  *)
(* and a module when it carries __name__.                                  *)
(***************************************************************************)
PyList(of, items) == [t |-> "list", of |-> of, items |-> items]
PyTuple(of, items) == [t |-> "tuple", of |-> of, items |-> items]
PyObject == [t |-> "object"]
PyCallable(id, name, module) ==
    [t |-> "callable", id |-> id, named |-> TRUE, name |-> name, module |-> module]
\* a callable without __name__, such as a functools.partial
PyPartial(id) ==
    [t |-> "callable", id |-> id, named |-> FALSE, name |-> "", module |-> ""]

\* a module-level function of an importable module (tf.nn.relu)
relu == PyCallable("relu", "relu", "tf_nn")
\* a module-level function, and a method of the same name in the same module
act == PyCallable("act", "act", "main")
Model_act == PyCallable("Model.act", "act", "main")
\* a lambda: its __name__ is '<lambda>'
a_lambda == PyCallable("lambda", "<lambda>", "main")
\* a function of a module that cannot be imported where the config is loaded
gone_f == PyCallable("gone.f", "f", "gone")

\* importlib.import_module(m).__dict__ of the importable modules
Modules == [tf_nn |-> [relu |-> relu], main |-> [act |-> act]]

(***************************************************************************)
(* TFModelConfig.  A config is a record (a dict); the fields kept are the  *)
(* ones the modelled operations read.  saver_max_to_keep (50 snapshots,    *)
(* never reached within MaxCalls), prefetch and shuffle_buffer are left    *)
(* out.                                                                    *)
(***************************************************************************)
TFModelConfig_defaults ==
    [summaries_root           |-> None,
     checkpoints_root         |-> None,
     epoch_summaries_interval |-> Some(1),
     step_summaries_interval  |-> None,
     saver_interval           |-> None,
     scope_name               |-> "tfmodel",
     log_level                |-> "DEBUG",
     log_file                 |-> None,
     batch_size               |-> 32]

\* the keys a subclass config adds (VAEConfig.init: in_size, n_hidden,
\* hidden_activation, ...)
SubclassKeys ==
    [in_size |-> 3, n_hidden |-> PyList("int", <<10, 10>>), hidden_activation |-> relu]

\* the config _init_from_checkpoint falls back to
MinimalConfig == [scope_name |-> "", log_level |-> "ERROR"]

Intervals == {None, Some(Interval)}

\* the configs a caller constructs a model with
Configs ==
    {[TFModelConfig_defaults EXCEPT !.summaries_root = s, !.checkpoints_root = c,
                                    !.saver_interval = v, !.step_summaries_interval = t,
                                    !.batch_size = 2] @@ SubclassKeys :
        s \in {None, Some("summaries")}, c \in {None, Some("checkpoints")},
        v \in Intervals, t \in Intervals}

(***************************************************************************)
(* Files.  config.json holds a JSON document or bytes json.load rejects.   *)
(* A JSON document maps each key to a JSON value: null, a number or a      *)
(* string (written as the Python value it equals) or an array.             *)
(***************************************************************************)
JsonFile(doc) == [valid |-> TRUE, doc |-> doc]
GarbageFile == [valid |-> FALSE]

JsonArray(of, items) == [t |-> "array", of |-> of, items |-> items]

\* the keys whose values are None, numbers or strings
ScalarKeys == DOMAIN TFModelConfig_defaults \cup {"in_size"}

CALLABLE_TYPE == "TFMODELLIB_TFMODEL_JSONENCODER__CALLABLE_TYPE"

\* TFModelConfigEncoder.default(obj): called for what json cannot serialize
TFModelConfigEncoder_default(obj) ==
    IF obj.t = "callable"
    THEN IF obj.named
         THEN [raised |-> "none",
               json |-> JsonArray("str", <<CALLABLE_TYPE, obj.name, obj.module>>)]
         ELSE [raised |-> "AttributeError", json |-> JsonArray("str", <<>>)]
    ELSE [raised |-> "TypeError", json |-> JsonArray("str", <<>>)]

\* the JSON value json.dump writes for the value val of key k
json_encode(k, val) ==
    IF k \in ScalarKeys
    THEN [raised |-> "none", json |-> val]
    ELSE IF val.t \in {"list", "tuple"}
         THEN [raised |-> "none", json |-> JsonArray(val.of, val.items)]
         ELSE TFModelConfigEncoder_default(val)

\* json.dump(self, fp, cls=TFModelConfigEncoder)
json_dump(conf) ==
    LET bad == {k \in DOMAIN conf : json_encode(k, conf[k]).raised # "none"}
    IN  IF bad = {}
        THEN [raised |-> "none", doc |-> [k \in DOMAIN conf |-> json_encode(k, conf[k]).json]]
        ELSE [raised |-> json_encode(CHOOSE k \in bad : TRUE,
                                     conf[CHOOSE k \in bad : TRUE]).raised,
              doc |-> [k \in {} |-> 0]]

\* the try block of TFModelConfig.save(fname): file is what fname holds (None:
\* no such file), writable whether fname can be opened for writing.  A dump
\* that fails leaves an opened, partly written file.
save_try(conf, file, writable) ==
    IF ~writable
    THEN [file |-> file, raised |-> "IOError"]
    ELSE IF json_dump(conf).raised # "none"
         THEN [file |-> Some(GarbageFile), raised |-> json_dump(conf).raised]
         ELSE [file |-> Some(JsonFile(json_dump(conf).doc)), raised |-> "none"]

\* TFModelConfig.save(fname): except Exception as e: print(e)
TFModelConfig_save_to(conf, file, writable) ==
    LET r == save_try(conf, file, writable)
    IN  [file |-> r.file, printed |-> r.raised, raised |-> "none"]

\* TFModelConfig.save(fname) for a path that can be written: the file's
\* content afterwards
TFModelConfig_save(conf) == Val(TFModelConfig_save_to(conf, None, TRUE).file)

\* the loop body of TFModelConfig.load for one entry of the document: a
\* non-empty array whose first element is the marker names a callable
json_decode(k, j, legacy) ==
    IF k \in ScalarKeys
    THEN [raised |-> "none", val |-> j]
    ELSE IF ~(Len(j.items) > 0 /\ j.of = "str" /\ j.items[1] = CALLABLE_TYPE)
         THEN [raised |-> "none", val |-> PyList(j.of, j.items)]
         ELSE IF legacy
              THEN [raised |-> "NotImplementedError", val |-> PyObject]
         ELSE IF Len(j.items) < 3
              THEN [raised |-> "IndexError", val |-> PyObject]
         ELSE IF j.items[3] \notin DOMAIN Modules
              THEN [raised |-> "ImportError", val |-> PyObject]
         ELSE IF j.items[2] \notin DOMAIN Modules[j.items[3]]
              THEN [raised |-> "KeyError", val |-> PyObject]
         ELSE [raised |-> "none", val |-> Modules[j.items[3]][j.items[2]]]

\* the try block of TFModelConfig.load(fname) on the config conf; legacy: the
\* runtime is older than Python 3.4.  self.update(**conf) is its last
\* statement, so a failure leaves the config as it was.
load_try(conf, file, legacy) ==
    IF IsNone(file) THEN [config |-> conf, raised |-> "IOError"]
    ELSE IF ~Val(file).valid THEN [config |-> conf, raised |-> "ValueError"]
    ELSE LET doc == Val(file).doc
             bad == {k \in DOMAIN doc : json_decode(k, doc[k], legacy).raised # "none"}
         IN  IF bad = {}
             THEN [config |-> [k \in DOMAIN doc |-> json_decode(k, doc[k], legacy).val] @@ conf,
                   raised |-> "none"]
             ELSE [config |-> conf,
                   raised |-> json_decode(CHOOSE k \in bad : TRUE,
                                          doc[CHOOSE k \in bad : TRUE], legacy).raised]

\* a load without the except clause: the failure reaches the caller
TFModelConfig_load_propagating(conf, file, legacy) ==
    LET r == load_try(conf, file, legacy)
    IN  [config |-> r.config, printed |-> "none", raised |-> r.raised]

\* TFModelConfig.load(fname): except Exception as e: print(e)
TFModelConfig_load(conf, file, legacy) ==
    LET r == load_try(conf, file, legacy)
    IN  [config |-> r.config, printed |-> r.raised, raised |-> "none"]

(***************************************************************************)
(* Construction.                                                           *)
(***************************************************************************)
SetMax(S) == CHOOSE m \in S : \A x \in S : x <= m

\* the four summaries init_summaries registers, each (float(), mode)
StandardSummaries ==
    [epoch_train_loss |-> [value |-> "0.0", mode |-> "epoch"],
     epoch_valid_loss |-> [value |-> "0.0", mode |-> "epoch"],
     step_train_loss  |-> [value |-> "0.0", mode |-> "step"],
     step_valid_loss  |-> [value |-> "0.0", mode |-> "step"]]

NoSummaries == [k \in {} |-> 0]

\* a run directory of the checkpoints root right after os.makedirs
EmptyDir == [config_json |-> None, snaps |-> {}]

\* a graph no dense layer has been added to
NoGraph == [encoder |-> <<>>, decoder |-> <<>>]

\* the attributes of an instance no initialisation step has set yet
Unset(conf, fsS, fsC) ==
    [config |-> conf, graph |-> NoGraph, global_step |-> 0, batch_step |-> 0,
     summaries_ind |-> None, summary_fwriter |-> None, summaries |-> NoSummaries,
     summary_values |-> NoSummaries,
     checkpoint_dir |-> None, trainset |-> None, num_batches |-> None,
     fs_summaries |-> fsS, fs_checkpoints |-> fsC, raised |-> "none"]

\* init_datasets: load_data() returned data, None or a training set of n samples
init_datasets(o, data) ==
    IF IsNone(data)
    THEN o
    ELSE [o EXCEPT !.trainset = data,
                   !.num_batches = Some(Val(data).n \div o.config.batch_size)]

\* build_vae_graph(..., n_hidden, ...): the units of the encoder layers
\* (build_mlp_graph with n_hidden[:-1] and out_size n_hidden[-1]), the units of
\* the decoder layers, built the same way after n_hidden.reverse(), and the
\* list n_hidden as the call leaves it
build_vae_graph(n_hidden) ==
    [encoder  |-> Slice(n_hidden, 0, Len(n_hidden) - 1) \o <<n_hidden[Len(n_hidden)]>>,
     decoder  |-> Slice(Reversed(n_hidden), 0, Len(n_hidden) - 1)
                      \o <<Reversed(n_hidden)[Len(n_hidden)]>>,
     n_hidden |-> Reversed(n_hidden)]

\* build_graph, the subclass hook.  A subclass that reads its own config keys
\* (VAE.build_graph reads config['in_size']) raises KeyError without them;
\* VAE.build_graph hands the entries of self.config to build_vae_graph, the
\* list config['n_hidden'] itself among them.
build_graph(o, needsKeys) ==
    IF ~needsKeys
    THEN o
    ELSE IF ~({"in_size", "n_hidden"} \subseteq DOMAIN o.config)
         THEN [o EXCEPT !.raised = "KeyError"]
         ELSE LET g == build_vae_graph(o.config.n_hidden.items)
              IN  [o EXCEPT !.graph = [encoder |-> g.encoder, decoder |-> g.decoder],
                            !.config.n_hidden.items = g.n_hidden]

\* init_logger reads scope_name, log_level and log_file of self.config
init_logger(conf) ==
    IF {"scope_name", "log_level", "log_file"} \subseteq DOMAIN conf
    THEN "none"
    ELSE "KeyError"

valid_summary_modes == {"epoch", "step"}

\* add_summary(tag, key, mode): the instance afterwards and the exception the
\* call left with.  The warning of the invalid-mode branch formats the name
\* `which`, which add_summary does not define.
add_summary(self, tag, key, mode) ==
    IF mode \notin valid_summary_modes
    THEN [self |-> self, raised |-> "NameError"]
    ELSE LET k == IF IsNone(key) THEN tag ELSE Val(key)
         IN  [self |-> [self EXCEPT !.summaries =
                           (k :> [value |-> "0.0", mode |-> mode]) @@ @],
              raised |-> "none"]

\* init_summaries: allocate the summaries run directory, open the writer,
\* register the standard summaries and build the values from the registry
init_summaries(o) ==
    IF IsNone(o.config.summaries_root)
    THEN [o EXCEPT !.summary_fwriter = None]
    ELSE LET ind == IF IsNone(o.fs_summaries)
                    THEN 0
                    ELSE SetMax({0} \cup Val(o.fs_summaries)) + 1
             old == IF IsNone(o.fs_summaries) THEN {} ELSE Val(o.fs_summaries)
             o1 == add_summary(o, "epoch training loss", Some("epoch_train_loss"), "epoch").self
             o2 == add_summary(o1, "epoch validation loss", Some("epoch_valid_loss"), "epoch").self
             o3 == add_summary(o2, "step training loss", Some("step_train_loss"), "step").self
             o4 == add_summary(o3, "step validation loss", Some("step_valid_loss"), "step").self
         IN  [o4 EXCEPT !.summaries_ind = Some(ind),
                        !.fs_summaries = Some(old \cup {ind}),
                        !.summary_fwriter = Some(ind),
                        !.summary_values = [k \in DOMAIN o4.summaries |-> o4.summaries[k]]]

\* init_saver: the checkpoint directory is named after self.summaries_ind
init_saver(o) ==
    IF IsNone(o.config.checkpoints_root)
    THEN [o EXCEPT !.checkpoint_dir = None]
    ELSE IF IsNone(o.summaries_ind)
         THEN [o EXCEPT !.raised = "AttributeError"]
         ELSE LET d == Val(o.summaries_ind)
              IN  [o EXCEPT !.checkpoint_dir = Some(d),
                            !.fs_checkpoints =
                                IF d \in DOMAIN o.fs_checkpoints
                                THEN o.fs_checkpoints
                                ELSE (d :> EmptyDir) @@ o.fs_checkpoints]

\* _init_from_config: the instance after the call, raised the exception it left with
init_from_config(conf, data, needsKeys, fsS, fsC) ==
    LET o1 == build_graph(init_datasets(Unset(conf, fsS, fsC), data), needsKeys)
    IN  IF o1.raised # "none" THEN o1
        ELSE IF init_logger(conf) # "none" THEN [o1 EXCEPT !.raised = init_logger(conf)]
        ELSE init_saver(init_summaries(o1))

(***************************************************************************)
(* The instance as a record, so that the methods below are functions from  *)
(* the instance before a call to the instance after it.                    *)
(***************************************************************************)
Self ==
    [config |-> config, global_step |-> global_step, batch_step |-> batch_step,
     summary_fwriter |-> summary_fwriter, summaries |-> summaries,
     summary_values |-> summary_values,
     last_event |-> last_event, checkpoint_dir |-> checkpoint_dir,
     trainset |-> trainset, num_batches |-> num_batches,
     fs_checkpoints |-> fs_checkpoints, first_saved |-> first_saved, logged |-> <<>>]

Log(self, level) == [self EXCEPT !.logged = Append(@, level)]

\* update_summary(key, val)
update_summary(self, key, val) ==
    IF IsNone(self.summary_fwriter)
    THEN self
    ELSE IF key \notin DOMAIN self.summary_values
         THEN Log(self, "WARNING")
         ELSE [self EXCEPT !.summary_values[key].value = val]

\* a write_summary that resets the values it has handed to the file writer
write_summary_resetting(self, which) ==
    IF which \notin valid_summary_modes
    THEN Log(self, "WARNING")
    ELSE IF IsNone(self.summary_fwriter)
         THEN self
         ELSE LET keys == {k \in DOMAIN self.summary_values :
                              self.summary_values[k].mode = which}
                  step == IF which = "epoch" THEN self.global_step ELSE self.batch_step
              IN  [self EXCEPT !.last_event =
                       Some([which  |-> which, step |-> step,
                             values |-> [k \in keys |-> self.summary_values[k].value]]),
                               !.summary_values =
                       [k \in DOMAIN @ |-> IF k \in keys
                                           THEN [value |-> "0.0", mode |-> which]
                                           ELSE @[k]]]

\* write_summary(which): hand the values of that mode to the file writer
write_summary(self, which) ==
    IF which \notin valid_summary_modes
    THEN Log(self, "WARNING")
    ELSE IF IsNone(self.summary_fwriter)
         THEN self
         ELSE LET keys == {k \in DOMAIN self.summary_values :
                              self.summary_values[k].mode = which}
                  step == IF which = "epoch" THEN self.global_step ELSE self.batch_step
              IN  [self EXCEPT !.last_event =
                       Some([which  |-> which, step |-> step,
                             values |-> [k \in keys |-> self.summary_values[k].value]])]

\* save(): a variable snapshot tagged with the epoch count, and config.json
\* unless the directory already holds one.  The saver's var_list is
\* get_saver_variables(), all global variables, the two counters among them.
save(self) ==
    IF IsNone(self.checkpoint_dir)
    THEN Log(self, "WARNING")
    ELSE LET d    == Val(self.checkpoint_dir)
             dir  == self.fs_checkpoints[d]
             snap == [global_step |-> self.global_step, batch_step |-> self.batch_step]
             kept == {x \in dir.snaps : x.global_step # self.global_step}
         IN  [self EXCEPT !.fs_checkpoints[d] =
                  [config_json |-> IF IsNone(dir.config_json)
                                   THEN Some(TFModelConfig_save(self.config))
                                   ELSE dir.config_json,
                   snaps       |-> kept \cup {snap}],
                          !.first_saved = IF IsNone(@) THEN Some(self.config) ELSE @]

\* a train_step that leaves the mini-batch counter alone
train_step_no_increment(self, validation_inputs) == self

\* train_step(inds, ..., validation_inputs, ...): the instance afterwards
\* (the pair it returns is train_step_result)
train_step(self, validation_inputs) ==
    LET losses     == train_step_result(validation_inputs)
        step_count == self.batch_step
        interval   == self.config.step_summaries_interval
        s1 == IF /\ ~IsNone(self.summary_fwriter)
                 /\ ~IsNone(interval)
                 /\ step_count % Val(interval) = 0
              THEN write_summary(
                       update_summary(
                           update_summary(self, "step_train_loss", losses[1]),
                           "step_valid_loss", losses[2]),
                       "step")
              ELSE self
    IN  [s1 EXCEPT !.batch_step = @ + 1]

\* k calls of train_step in a row
RECURSIVE train_steps(_, _, _)
train_steps(self, validation_inputs, k) ==
    IF k = 0 THEN self
    ELSE train_steps(train_step(self, validation_inputs), validation_inputs, k - 1)

\* np.mean over equal values is that value
MeanOf(xs) == IF \A i \in 1..Len(xs) : xs[i] = xs[1] THEN xs[1] ELSE "mean"

\* np.mean(results, axis=0) over a list of loss pairs; nan for the empty list
np_mean(results) ==
    IF results = <<>>
    THEN [type |-> "float", items |-> <<NaN>>]
    ELSE [type |-> "ndarray",
          items |-> [j \in 1..2 |-> MeanOf([i \in 1..Len(results) |-> results[i][j]])]]

\* training_loss, validation_loss = result
Unpack(result) ==
    IF result.type = "float" THEN "TypeError"
    ELSE IF Len(result.items) # 2 THEN "ValueError"
    ELSE "none"

\* the list maybe_chunked returned, after train()'s post-processing
train_result(mc) ==
    IF mc.was_chunked
    THEN IF Len(mc.result) > 1 THEN np_mean(mc.result)
         ELSE IF Len(mc.result) = 1 THEN [type |-> "tuple", items |-> mc.result[1]]
         ELSE [type |-> "list", items |-> <<>>]
    ELSE [type |-> "tuple", items |-> mc.result]

\* the part of train() after the mini-batches: unpack the result, checkpoint,
\* epoch summaries, log line, epoch counter
train_finish(self, result) ==
    IF Unpack(result) # "none"
    THEN [self |-> self, raised |-> Unpack(result), losses |-> result.items]
    ELSE LET training_loss   == result.items[1]
             validation_loss == result.items[2]
             gs == self.global_step
             sv == self.config.saver_interval
             ev == self.config.epoch_summaries_interval
             s1 == IF ~IsNone(sv) /\ gs % Val(sv) = 0 THEN save(self) ELSE self
             s2 == IF ~IsNone(ev) /\ gs % Val(ev) = 0
                   THEN write_summary(
                            update_summary(
                                update_summary(s1, "epoch_train_loss", training_loss),
                                "epoch_valid_loss", validation_loss),
                            "epoch")
                   ELSE s1
             s3 == Log(s2, "INFO")
         IN  [self |-> [s3 EXCEPT !.global_step = @ + 1], raised |-> "none",
              losses |-> result.items]

\* train(train_inputs, train_targets, validation_inputs, validation_targets, batch_size)
\* a.given: train_inputs and train_targets are not None; a.inds: the index
\* list train() draws (a permutation, paired with validation indices)
train(self, a) ==
    IF IsNone(self.trainset)
    THEN IF ~a.given
         THEN [self |-> self, raised |-> "ValueError: train_inputs", losses |-> <<>>,
               steps |-> 0, run_loss_calls |-> 0]
         ELSE LET mc == maybe_chunked(a.inds, a.batch_size,
                                      Callable("train_step"), "train_step",
                                      [validation_inputs |-> a.validation_inputs])
                  s1 == train_steps(self, a.validation_inputs, Len(mc.calls))
              IN  train_finish(s1, train_result(mc))
                  @@ [steps |-> Len(mc.calls),
                      run_loss_calls |-> Len(mc.calls) * run_loss_calls(a.validation_inputs)]
    ELSE LET nb == Val(self.num_batches)
             results == [x \in 1..nb |-> train_step_result(None)]
             s1 == train_steps(self, None, nb)
         IN  train_finish(s1, np_mean(results))
             @@ [steps |-> nb, run_loss_calls |-> nb * run_loss_calls(None)]

\* infer(inputs, batch_size)
infer(inputs, batch_size) ==
    LET mc == maybe_chunked(Range(Len(inputs)), batch_size,
                            Callable("infer_step"), "infer_step", [inputs |-> inputs])
    IN  IF mc.was_chunked
        THEN IF Len(mc.result) > 1
             THEN [result |-> Flatten(mc.result), raised |-> "none"]
             ELSE IF Len(mc.result) = 0
                  THEN [result |-> <<>>, raised |-> "IndexError"]
                  ELSE [result |-> mc.result[1], raised |-> "none"]
        ELSE [result |-> mc.result, raised |-> "none"]

(***************************************************************************)
(* The state machine.                                                      *)
(***************************************************************************)
NoCall == [op |-> "none"]
NoConfig == [k \in {} |-> 0]

\* the config and the checkpoint directory an earlier run left on disk
OldConfig ==
    [TFModelConfig_defaults EXCEPT !.summaries_root = Some("summaries"),
                                   !.checkpoints_root = Some("checkpoints"),
                                   !.scope_name = "old_run"] @@ SubclassKeys
OldDir == [config_json |-> Some(TFModelConfig_save(OldConfig)),
           snaps       |-> {[global_step |-> 2, batch_step |-> 2]}]

\* what load_data() may return: None, or a training set of n samples with or
\* without a validation set
Datasets ==
    {None, Some([n |-> MaxN, valid |-> TRUE])}
    \cup {Some([n |-> n, valid |-> FALSE]) : n \in {1, MaxN, MaxN + 2}}

\* what may be found at the path a model is constructed from
CheckpointFiles ==
    {None, Some(GarbageFile)} \cup {Some(TFModelConfig_save(c)) : c \in Configs \cup {OldConfig}}

\* no instance yet, and a disk earlier runs may have written to
InitNew ==
    /\ call = NoCall
    /\ phase = "Uninit"
    /\ config = NoConfig
    /\ graph = NoGraph
    /\ global_step = 0
    /\ batch_step = 0
    /\ summaries_ind = None
    /\ summary_fwriter = None
    /\ summaries = NoSummaries
    /\ summary_values = NoSummaries
    /\ last_event = None
    /\ checkpoint_dir = None
    /\ trainset = None
    /\ num_batches = None
    /\ first_saved = None
    /\ fs_summaries \in {None} \cup {Some(S) : S \in SUBSET (0..MaxIdx)}
    /\ fs_checkpoints \in {[d \in D |-> OldDir] : D \in SUBSET (0..MaxIdx)}
    /\ lastOp = NoCall
    /\ nCalls = 0
    /\ logged = <<>>

\* the instance TFModel(conf) returns, constructed on a disk that holds no
\* summaries root and at most the first run directory of the checkpoints root
Init ==
    \E conf \in Configs, data \in Datasets, fsC \in {[d \in D |-> OldDir] : D \in {{}, {0}}} :
       LET o == init_from_config(conf, data, TRUE, None, fsC)
       IN  /\ o.raised = "none"
           /\ call = NoCall
           /\ phase = "Ready"
           /\ config = o.config
           /\ graph = o.graph
           /\ global_step = o.global_step
           /\ batch_step = o.batch_step
           /\ summaries_ind = o.summaries_ind
           /\ summary_fwriter = o.summary_fwriter
           /\ summaries = o.summaries
           /\ summary_values = o.summary_values
           /\ last_event = None
           /\ checkpoint_dir = o.checkpoint_dir
           /\ trainset = o.trainset
           /\ num_batches = o.num_batches
           /\ first_saved = None
           /\ fs_summaries = o.fs_summaries
           /\ fs_checkpoints = o.fs_checkpoints
           /\ lastOp = [op |-> "init", from |-> "config", raised |-> "none"]
           /\ nCalls = 0
           /\ logged = <<>>

\* the instance attributes and the disk after an initialisation o
SetInstance(o) ==
    /\ graph' = o.graph
    /\ global_step' = o.global_step
    /\ batch_step' = o.batch_step
    /\ summaries_ind' = o.summaries_ind
    /\ summary_fwriter' = o.summary_fwriter
    /\ summaries' = o.summaries
    /\ summary_values' = o.summary_values
    /\ checkpoint_dir' = o.checkpoint_dir
    /\ trainset' = o.trainset
    /\ num_batches' = o.num_batches
    /\ first_saved' = None
    /\ fs_summaries' = o.fs_summaries
    /\ fs_checkpoints' = o.fs_checkpoints

\* TFModel(config) with a TFModelConfig instance
InitFromConfig(conf, data) ==
    /\ phase = "Uninit"
    /\ LET o == init_from_config(conf, data, TRUE, fs_summaries, fs_checkpoints)
       IN  /\ SetInstance(o)
           /\ config' = o.config
           /\ phase' = IF o.raised = "none" THEN "Ready" ELSE "Failed"
           /\ lastOp' = [op |-> "init", from |-> "config", raised |-> o.raised,
                          conf |-> conf]
    /\ logged' = <<>>
    /\ UNCHANGED <<call, last_event, nCalls>>

\* TFModel(path): _init_from_checkpoint.  needsKeys: the subclass's build_graph
\* reads config keys of its own.
InitFromCheckpoint(file, data, needsKeys) ==
    /\ phase = "Uninit"
    /\ LET loaded == TFModelConfig_load(TFModelConfig_defaults, file, FALSE)
           o == init_from_config(loaded.config, data, needsKeys, fs_summaries, fs_checkpoints)
       IN  /\ SetInstance(o)
           /\ IF o.raised = "none"
              THEN /\ config' = o.config
                   /\ phase' = "Ready"
                   /\ logged' = <<>>
                   /\ lastOp' = [op |-> "init", from |-> "checkpoint", raised |-> "none",
                                  cause |-> "none", load_failed |-> loaded.printed # "none"]
              ELSE \* except Exception as e: minimal config, init_logger, log, raise e
                   /\ config' = MinimalConfig
                   /\ phase' = "Failed"
                   /\ logged' = IF init_logger(MinimalConfig) = "none"
                                 THEN <<"ERROR">> ELSE <<>>
                   /\ lastOp' = [op |-> "init", from |-> "checkpoint",
                                  raised |-> IF init_logger(MinimalConfig) = "none"
                                             THEN o.raised ELSE init_logger(MinimalConfig),
                                  cause |-> o.raised, load_failed |-> loaded.printed # "none"]
    /\ UNCHANGED <<call, last_event, nCalls>>

\* the instance attributes and the disk after a method left the instance as s
SetSelf(s) ==
    /\ config' = s.config
    /\ global_step' = s.global_step
    /\ batch_step' = s.batch_step
    /\ summaries' = s.summaries
    /\ summary_values' = s.summary_values
    /\ last_event' = s.last_event
    /\ fs_checkpoints' = s.fs_checkpoints
    /\ first_saved' = s.first_saved
    /\ logged' = s.logged
    /\ UNCHANGED <<phase, graph, summaries_ind, summary_fwriter, checkpoint_dir, trainset,
                   num_batches, fs_summaries>>

CanCall == phase = "Ready" /\ nCalls < MaxCalls

\* model.train(...)
Train(a) ==
    /\ CanCall
    /\ LET r == train(Self, a)
       IN  /\ SetSelf(r.self)
           /\ lastOp' = [op |-> "train", raised |-> r.raised, n |-> Len(a.inds),
                          batch_size |-> a.batch_size, given |-> a.given,
                          validation |-> ~IsNone(a.validation_inputs),
                          steps |-> r.steps, run_loss_calls |-> r.run_loss_calls,
                          validation_loss |-> IF r.raised = "none" THEN r.losses[2]
                                              ELSE "none"]
    /\ nCalls' = nCalls + 1
    /\ UNCHANGED call

\* model.train_step(inds, ...) called directly
TrainStep(validation_inputs) ==
    /\ CanCall
    /\ SetSelf(train_step(Self, validation_inputs))
    /\ lastOp' = [op |-> "train_step", raised |-> "none",
                   validation |-> ~IsNone(validation_inputs),
                   run_loss_calls |-> run_loss_calls(validation_inputs),
                   validation_loss |-> train_step_result(validation_inputs)[2]]
    /\ nCalls' = nCalls + 1
    /\ UNCHANGED call

\* model.infer(inputs, batch_size)
Infer(inputs, batch_size) ==
    /\ CanCall
    /\ LET r == infer(inputs, batch_size)
       IN  /\ call' = [op |-> "infer", inputs |-> inputs, batch_size |-> batch_size,
                        result |-> r.result, raised |-> r.raised]
           /\ lastOp' = [op |-> "infer", raised |-> r.raised]
    /\ nCalls' = nCalls + 1
    /\ SetSelf(Self)

\* model.save()
Save ==
    /\ CanCall
    /\ SetSelf(save(Self))
    /\ lastOp' = [op |-> "save", raised |-> "none"]
    /\ nCalls' = nCalls + 1
    /\ UNCHANGED call

\* a restore that takes the epoch counter from the snapshot and resets the
\* mini-batch counter
restore_reset_batch_step(self, snap) ==
    [self EXCEPT !.global_step = snap.global_step, !.batch_step = 0]

\* saver.restore: every variable of the saver's var_list takes the value the
\* snapshot holds
restore(self, snap) ==
    [self EXCEPT !.global_step = snap.global_step, !.batch_step = snap.batch_step]

\* model.restore(save_path).  path names the snapshot of a run directory by
\* its tag, or is None for a path that holds no snapshot.  The saver assigns
\* every variable of its var_list, the counters among them, the value the
\* snapshot holds.
Restore(path) ==
    /\ CanCall
    /\ IF IsNone(path)
       THEN /\ SetSelf(Log(Self, "DEBUG"))
            /\ lastOp' = [op |-> "restore", raised |-> "NotFoundError",
                           was |-> [global_step |-> global_step, batch_step |-> batch_step]]
       ELSE /\ Val(path).d \in DOMAIN fs_checkpoints
            /\ \E snap \in fs_checkpoints[Val(path).d].snaps :
                  /\ snap.global_step = Val(path).tag
                  /\ SetSelf(restore(Log(Self, "DEBUG"), snap))
            /\ lastOp' = [op |-> "restore", raised |-> "none",
                           was |-> [global_step |-> global_step, batch_step |-> batch_step]]
    /\ nCalls' = nCalls + 1
    /\ UNCHANGED call

\* the snapshot paths on disk
SnapshotPaths ==
    UNION {{Some([d |-> d, tag |-> x.global_step]) : x \in fs_checkpoints[d].snaps} :
           d \in DOMAIN fs_checkpoints}

\* the caller changes an entry of model.config (a dict) between calls
SetConfig(key, val) ==
    /\ CanCall
    /\ config[key] # val
    /\ SetSelf([Self EXCEPT !.config[key] = val])
    /\ lastOp' = [op |-> "set_config", raised |-> "none"]
    /\ nCalls' = nCalls + 1
    /\ UNCHANGED call

\* the index lists train() may draw for n samples: a permutation of range(n)
\* (the model draws among the rotations of range(n)), paired with a validation
\* index per sample when validation data is given
TrainInds(n, validation_inputs) ==
    LET perms == {[i \in 1..n |-> (i - 1 + r) % n] : r \in 0..(n - 1)}
    IN  IF IsNone(validation_inputs)
        THEN perms
        ELSE {[i \in 1..n |-> <<p[i], 0>>] : p \in perms}

BatchSizes == {None} \cup {Some(k) : k \in 1..MaxK}

ValidationInputs == {None, Some("validation_inputs")}

\* train() without train_inputs or train_targets
NoTrainArgs == [given |-> FALSE, inds |-> <<>>, validation_inputs |-> None, batch_size |-> None]

(***************************************************************************)
(* Calls of the helpers, and of infer over longer inputs.                  *)
(***************************************************************************)
SeqsUpTo(S, n) == UNION {[1..k -> S] : k \in 0..n}

\* the lists handed to the helpers: short lists over 0..MaxElem, and range(n)
ValueLists == SeqsUpTo(0..MaxElem, MaxLen) \cup {Range(n) : n \in 0..MaxRange}

ChunkLengths == {Some(k) : k \in 1..MaxChunk}

\* [l for l in chunklist(values, length)]
CallChunklist(values, length) ==
    /\ call' = [op |-> "chunklist", values |-> values, length |-> length,
                 result |-> chunklist(values, length)]
    /\ UNCHANGED modelVars

\* maybe_chunked(values, length, on_chunked, on_not_chunked)
CallMaybeChunked(values, length, on_chunked, on_not_chunked) ==
    /\ LET mc == maybe_chunked(values, length, on_chunked, on_not_chunked, <<>>)
       IN  call' = [op |-> "maybe_chunked", values |-> values, length |-> length,
                    on_chunked |-> on_chunked, on_not_chunked |-> on_not_chunked,
                    result |-> mc.result, was_chunked |-> mc.was_chunked,
                    calls |-> mc.calls]
    /\ UNCHANGED modelVars

\* a model constructed from the default config on an empty disk, and the
\* arguments of the helper call to come
InitHelpers ==
    LET o == init_from_config(TFModelConfig_defaults @@ SubclassKeys, None, TRUE, None,
                              [d \in {} |-> EmptyDir])
    IN  /\ call \in {[op |-> "args", values |-> values, length |-> length] :
                        values \in ValueLists, length \in ChunkLengths \cup {None}}
        /\ phase = "Ready"
        /\ config = o.config
        /\ graph = o.graph
        /\ global_step = o.global_step
        /\ batch_step = o.batch_step
        /\ summaries_ind = o.summaries_ind
        /\ summary_fwriter = o.summary_fwriter
        /\ summaries = o.summaries
        /\ summary_values = o.summary_values
        /\ last_event = None
        /\ checkpoint_dir = o.checkpoint_dir
        /\ trainset = o.trainset
        /\ num_batches = o.num_batches
        /\ first_saved = None
        /\ fs_summaries = o.fs_summaries
        /\ fs_checkpoints = o.fs_checkpoints
        /\ lastOp = [op |-> "init", from |-> "config", raised |-> "none"]
        /\ nCalls = 0
        /\ logged = <<>>

\* one call with the arguments drawn
NextHelpers ==
    \/ /\ call.op = "args"
       /\ ~IsNone(call.length)
       /\ CallChunklist(call.values, Val(call.length))
    \/ \E f \in {"prod", "sum"}, g \in {"prod", "sum"} :
          /\ call.op = "args"
          /\ CallMaybeChunked(call.values, call.length, Callable(f), g)
    \/ /\ call.op = "args"
       /\ CallMaybeChunked(call.values, call.length, CallableList(<<"list", "reversed">>), "sum")
    \/ /\ call.op = "args"
       /\ Infer(call.values, call.length)

SpecHelpers == InitHelpers /\ [][NextHelpers]_vars

(***************************************************************************)
(* Calls of TFModelConfig.save and TFModelConfig.load.                     *)
(***************************************************************************)
\* VAEConfig(): the defaults of the base class and of the subclass
VAEConfig == TFModelConfig_defaults @@ SubclassKeys

\* the callables a config may hold as hidden_activation
Callables == {relu, act, Model_act, a_lambda, gone_f, PyPartial("partial")}

\* the layer sizes a config may hold as n_hidden
HiddenLists == {PyList("int", h) : h \in {<<10, 10>>, <<20, 10>>, <<30, 20, 10>>}}

\* values of a further, non-callable field: a tuple, lists of strings (one
\* that starts with the marker string, one that is the marker alone), an empty
\* list, and an object json cannot serialize
ExtraValues ==
    {PyTuple("int", <<3, 4>>), PyList("str", <<"a", "b">>), PyList("int", <<>>),
     PyList("str", <<CALLABLE_TYPE, "relu", "tf_nn">>), PyList("str", <<CALLABLE_TYPE>>),
     PyObject}

\* the configs handed to save: VAEConfig(hidden_activation=..., n_hidden=...,
\* batch_size=...) and VAEConfig(input_shape=...)
SavedConfigs ==
    {[VAEConfig EXCEPT !.hidden_activation = a, !.n_hidden = h, !.batch_size = b] :
        a \in Callables, h \in HiddenLists, b \in {2, 32}}
    \cup {("input_shape" :> x) @@ VAEConfig : x \in ExtraValues}

\* what the path may hold before the calls
FilesOnDisk == {None, Some(GarbageFile), Some(TFModelConfig_save(VAEConfig))}

\* conf.save(fname)
ConfigSave ==
    /\ call.op = "args"
    /\ LET r == TFModelConfig_save_to(call.conf, call.file, call.writable)
       IN  call' = [op |-> "save", conf |-> call.conf, file |-> r.file,
                    writable |-> call.writable, legacy |-> call.legacy,
                    printed |-> r.printed, raised |-> r.raised,
                    failure |-> save_try(call.conf, call.file, call.writable).raised]
    /\ UNCHANGED modelVars

\* fresh = VAEConfig(); fresh.load(fname)
ConfigLoad ==
    /\ call.op \in {"args", "save"}
    /\ LET r == TFModelConfig_load(VAEConfig, call.file, call.legacy)
       IN  call' = [op |-> "load", conf |-> call.conf, file |-> call.file,
                    writable |-> call.writable, legacy |-> call.legacy,
                    after_save |-> call.op = "save",
                    loaded |-> r.config, printed |-> r.printed, raised |-> r.raised,
                    failure |-> load_try(VAEConfig, call.file, call.legacy).raised]
    /\ UNCHANGED modelVars

\* a model constructed from the default config on an empty disk, and a config,
\* a path and a runtime for the calls to come
InitConfig ==
    LET o == init_from_config(VAEConfig, None, TRUE, None, [d \in {} |-> EmptyDir])
    IN  /\ call \in {[op |-> "args", conf |-> c, file |-> f, writable |-> w, legacy |-> l] :
                        c \in SavedConfigs, f \in FilesOnDisk, w \in BOOLEAN, l \in BOOLEAN}
        /\ phase = "Ready"
        /\ config = o.config
        /\ graph = o.graph
        /\ global_step = o.global_step
        /\ batch_step = o.batch_step
        /\ summaries_ind = o.summaries_ind
        /\ summary_fwriter = o.summary_fwriter
        /\ summaries = o.summaries
        /\ summary_values = o.summary_values
        /\ last_event = None
        /\ checkpoint_dir = o.checkpoint_dir
        /\ trainset = o.trainset
        /\ num_batches = o.num_batches
        /\ first_saved = None
        /\ fs_summaries = o.fs_summaries
        /\ fs_checkpoints = o.fs_checkpoints
        /\ lastOp = [op |-> "init", from |-> "config", raised |-> "none"]
        /\ nCalls = 0
        /\ logged = <<>>

NextConfig ==
    \/ ConfigSave
    \/ ConfigLoad

SpecConfig == InitConfig /\ [][NextConfig]_vars

(***************************************************************************)
(* Calls of the summary methods on a constructed model.                    *)
(***************************************************************************)
\* model.add_summary(tag, key, mode)
AddSummary(tag, key, mode) ==
    /\ CanCall
    /\ LET r == add_summary(Self, tag, key, mode)
       IN  /\ SetSelf(r.self)
           /\ lastOp' = [op |-> "add_summary", raised |-> r.raised, mode |-> mode]
    /\ nCalls' = nCalls + 1
    /\ UNCHANGED call

\* model.update_summary(key, val)
UpdateSummary(key, val) ==
    /\ CanCall
    /\ SetSelf(update_summary(Self, key, val))
    /\ lastOp' = [op |-> "update_summary", raised |-> "none", key |-> key]
    /\ nCalls' = nCalls + 1
    /\ UNCHANGED call

\* model.write_summary(which)
WriteSummary(which) ==
    /\ CanCall
    /\ SetSelf(write_summary(Self, which))
    /\ lastOp' = [op |-> "write_summary", raised |-> "none", which |-> which]
    /\ nCalls' = nCalls + 1
    /\ UNCHANGED call

\* the modes and keys handed to the summary methods: the valid ones and one
\* that is not
SummaryModes == valid_summary_modes \cup {"batch"}
SummaryKeys == {"epoch_train_loss", "step_valid_loss", "accuracy"}

\* a model constructed without a dataset on a disk that holds no earlier run
InitSummaries ==
    /\ Init
    /\ IsNone(trainset)
    /\ \A d \in DOMAIN fs_checkpoints : fs_checkpoints[d] = EmptyDir

NextSummaries ==
    \/ \E key \in {None, Some("epoch_train_loss")}, mode \in SummaryModes :
          AddSummary("accuracy", key, mode)
    \/ \E key \in SummaryKeys, val \in {LossTrain, NaN} : UpdateSummary(key, val)
    \/ \E which \in SummaryModes : WriteSummary(which)
    \/ \E v \in ValidationInputs : TrainStep(v)

SpecSummaries == InitSummaries /\ [][NextSummaries]_vars

(***************************************************************************)
(* A VAE constructed from a config, saved, and constructed again from the  *)
(* config.json of its checkpoint directory.                                *)
(***************************************************************************)
\* the configs a VAE is constructed with
VAEConfigs == {[c EXCEPT !.n_hidden = h] : c \in Configs, h \in HiddenLists}

\* VAE(path) with the config.json of the run's checkpoint directory: a new
\* instance takes the place of the one constructed before
Rebuild ==
    /\ CanCall
    /\ ~IsNone(checkpoint_dir)
    /\ LET file == fs_checkpoints[Val(checkpoint_dir)].config_json
           loaded == TFModelConfig_load(TFModelConfig_defaults, file, FALSE)
           o == init_from_config(loaded.config, None, TRUE, fs_summaries, fs_checkpoints)
       IN  /\ SetInstance(o)
           /\ IF o.raised = "none"
              THEN /\ config' = o.config
                   /\ phase' = "Ready"
                   /\ logged' = <<>>
                   /\ lastOp' = [op |-> "rebuild", raised |-> "none", was |-> graph]
              ELSE /\ config' = MinimalConfig
                   /\ phase' = "Failed"
                   /\ logged' = IF init_logger(MinimalConfig) = "none"
                                 THEN <<"ERROR">> ELSE <<>>
                   /\ lastOp' = [op |-> "rebuild",
                                  raised |-> IF init_logger(MinimalConfig) = "none"
                                             THEN o.raised ELSE init_logger(MinimalConfig),
                                  was |-> graph]
    /\ nCalls' = nCalls + 1
    /\ UNCHANGED <<call, last_event>>

\* no instance yet, and a disk no run has written to
InitVAE ==
    /\ InitNew
    /\ IsNone(fs_summaries)
    /\ DOMAIN fs_checkpoints = {}

NextVAE ==
    \/ \E conf \in VAEConfigs : InitFromConfig(conf, None)
    \/ Save
    \/ Rebuild

SpecVAE == InitVAE /\ [][NextVAE]_vars

\* constructing a model
NextInit ==
    \/ \E conf \in Configs, data \in Datasets : InitFromConfig(conf, data)
    \/ \E file \in CheckpointFiles, data \in Datasets, needsKeys \in BOOLEAN :
          InitFromCheckpoint(file, data, needsKeys)

SpecInit == InitNew /\ [][NextInit]_vars

\* the public operations of a constructed model
Next ==
    \/ \E v \in ValidationInputs, n \in 1..MaxN, b \in BatchSizes :
          \E inds \in TrainInds(n, v) :
             Train([given |-> TRUE, inds |-> inds, validation_inputs |-> v, batch_size |-> b])
    \/ Train(NoTrainArgs)
    \/ \E v \in ValidationInputs : TrainStep(v)
    \/ \E bs \in {None, Some(2)} : Infer(<<"x0", "x1">>, bs)
    \/ Save
    \/ \E path \in SnapshotPaths \cup {None} : Restore(path)
    \/ \E val \in Intervals : SetConfig("saver_interval", val)

Spec == Init /\ [][Next]_vars

(***************************************************************************)
(* Properties.                                                             *)
(***************************************************************************)
\* the operation the step just taken called
Called(op) == lastOp'.op = op /\ nCalls' = nCalls + 1

\* C1: on a Ready model every call of train() increases the epoch counter by
\* exactly 1, whatever the number of mini-batches: for every n >= 1 and every
\* batch_size in array mode, and for every num_batches in dataset mode.
C1_EpochPlusOnePerTrain ==
    [][(Called("train") /\ (IsNone(trainset) => lastOp'.given))
          => global_step' = global_step + 1]_vars

\* C2: the mini-batch counter increases by exactly 1 per train_step() call, and
\* one train() call increases it by the number of mini-batches of the epoch:
\* floor(n / batch_size) in array mode, 1 with batch_size None, and
\* floor(dataset size / config batch_size) in dataset mode.
C2_BatchCounterPerTrainStep ==
    [][/\ Called("train_step") => batch_step' = batch_step + 1
       /\ (Called("train") /\ IsNone(trainset) /\ lastOp'.given)
             => batch_step' = batch_step + (IF IsNone(lastOp'.batch_size)
                                            THEN 1
                                            ELSE lastOp'.n \div Val(lastOp'.batch_size))
       /\ (Called("train") /\ ~IsNone(trainset))
             => batch_step' = batch_step + (Val(trainset).n \div config.batch_size)]_vars

\* C2 witness: train() over 3 samples with batch_size 2 ran one mini-batch
C2_Witness ==
    /\ lastOp.op = "train"
    /\ lastOp.raised = "none"
    /\ nCalls = 1
    /\ lastOp.given
    /\ lastOp.n = 3
    /\ lastOp.batch_size = Some(2)
    /\ batch_step = 1

\* C3 as stated: across train, train_step, infer, save and restore the two
\* counters never decrease and change only through their increments.
C3_CountersNeverDecrease ==
    [][/\ global_step' >= global_step
       /\ batch_step' >= batch_step
       /\ global_step' # global_step => Called("train") /\ global_step' = global_step + 1
       /\ batch_step' # batch_step => Called("train") \/ Called("train_step")]_vars

\* C3 amended: across train, train_step, infer and save the two counters never
\* decrease and change only through their increments (the epoch counter by
\* exactly 1, in train; the mini-batch counter in train and train_step);
\* restore(path) overwrites both with the values the snapshot at path holds.
C3_CountersChangeByIncrementOrRestore ==
    [][/\ ~Called("restore") =>
             /\ global_step' >= global_step
             /\ batch_step' >= batch_step
             /\ global_step' # global_step
                   => Called("train") /\ global_step' = global_step + 1
             /\ batch_step' # batch_step => Called("train") \/ Called("train_step")
       /\ (Called("restore") /\ lastOp'.raised = "none") =>
             \E d \in DOMAIN fs_checkpoints : \E snap \in fs_checkpoints[d].snaps :
                 /\ global_step' = snap.global_step
                 /\ batch_step' = snap.batch_step
       /\ (Called("restore") /\ lastOp'.raised # "none") =>
             /\ global_step' = global_step
             /\ batch_step' = batch_step]_vars

\* C3 witness: a restore has set the counters back
C3_Witness ==
    /\ lastOp.op = "restore"
    /\ lastOp.raised = "none"
    /\ global_step < lastOp.was.global_step
    /\ batch_step <= lastOp.was.batch_step

\* C4: chunklist(seq, k) yields exactly floor(n/k) chunks of length k, the i-th
\* being seq[i*k .. i*k+k-1]; the trailing n mod k elements are in no chunk.
C4_ChunklistFullChunksOnly ==
    call.op = "chunklist" =>
        LET seq == call.values
            k   == call.length
            n   == Len(seq)
            r   == call.result
        IN  /\ Len(r) = n \div k
            /\ \A i \in 1..Len(r) :
                  /\ Len(r[i]) = k
                  /\ \A j \in 1..k : r[i][j] = seq[(i - 1) * k + j]
            /\ Flatten(r) = SubSeq(seq, 1, n - (n % k))

\* C4 witness: chunklist(range(7), 3) gave [[0, 1, 2], [3, 4, 5]]
C4_Witness ==
    /\ call.op = "chunklist"
    /\ call.length = 3
    /\ call.values = Range(7)
    /\ call.result = << <<0, 1, 2>>, <<3, 4, 5>> >>

\* C5: maybe_chunked(values, None, f, g) returns (g(values), False); g is
\* called exactly once, on the whole sequence, and f is never called.
C5_NotChunkedCallsGOnce ==
    (call.op = "maybe_chunked" /\ IsNone(call.length)) =>
        /\ call.was_chunked = FALSE
        /\ call.calls = << <<call.on_not_chunked, call.values>> >>
        /\ call.result = (IF call.on_not_chunked = "sum"
                          THEN SeqSum(call.values)
                          ELSE SeqProd(call.values))

\* C5 witness: maybe_chunked(range(5), None, prod, sum) gave (10, False)
C5_Witness ==
    /\ call.op = "maybe_chunked"
    /\ IsNone(call.length)
    /\ call.values = Range(5)
    /\ call.on_chunked = Callable("prod")
    /\ call.on_not_chunked = "sum"
    /\ call.was_chunked = FALSE
    /\ call.result = 10

\* C6: maybe_chunked(values, k, f, g) with one chunked function f returns
\* ([f(c_0), ..., f(c_{m-1})], True) over the floor(len(values)/k) full chunks
\* in order; g is never called and the trailing partial chunk never reaches f
\* (range(5), 2, prod, sum gives ([0, 6], True)).
C6_ChunkedAppliesFPerFullChunk ==
    (call.op = "maybe_chunked" /\ ~IsNone(call.length) /\ ~call.on_chunked.iterable) =>
        LET k == Val(call.length)
            m == Len(call.values) \div k
            f == call.on_chunked.fs[1]
            c(i) == SubSeq(call.values, (i - 1) * k + 1, i * k)
            F(v) == IF f = "prod" THEN SeqProd(v) ELSE SeqSum(v)
        IN  /\ call.was_chunked = TRUE
            /\ Len(call.result) = m
            /\ \A i \in 1..m : call.result[i] = F(c(i))
            /\ Len(call.calls) = m
            /\ \A i \in 1..m : call.calls[i] = <<f, c(i)>>
            /\ (call.values = Range(5) /\ k = 2 /\ f = "prod") => call.result = <<0, 6>>

\* C6 witness: maybe_chunked(range(5), 2, prod, sum) gave ([0, 6], True)
C6_Witness ==
    /\ call.op = "maybe_chunked"
    /\ call.length = Some(2)
    /\ call.values = Range(5)
    /\ call.on_chunked = Callable("prod")
    /\ call.on_not_chunked = "sum"
    /\ call.was_chunked = TRUE
    /\ call.result = <<0, 6>>

\* C7: infer(inputs, batch_size) returns one output row per input row, in
\* input order, for batch_size None and for every input length that is a
\* multiple of batch_size.
C7_InferOneRowPerInputRow ==
    (call.op = "infer" /\ (IsNone(call.batch_size)
                           \/ Len(call.inputs) % Val(call.batch_size) = 0)) =>
        /\ call.raised = "none"
        /\ Len(call.result) = Len(call.inputs)
        /\ \A i \in 1..Len(call.inputs) : call.result[i] = <<"out", call.inputs[i]>>

\* C8: a model constructed with checkpoints_root configured gets the
\* checkpoint subdirectory index 0 on the first run and otherwise the largest
\* existing subdirectory of checkpoints_root plus 1, whatever summaries_root is
\* and holds.
C8_CheckpointIndexFromCheckpointRoot ==
    [][(/\ phase = "Uninit"
        /\ lastOp'.op = "init"
        /\ "checkpoints_root" \in DOMAIN config'
        /\ ~IsNone(config'.checkpoints_root))
          => /\ phase' = "Ready"
             /\ checkpoint_dir' = Some(IF DOMAIN fs_checkpoints = {}
                                       THEN 0
                                       ELSE SetMax(DOMAIN fs_checkpoints) + 1)]_vars

\* C9: with a checkpoint root, config.json of the run's checkpoint directory is
\* written by the instance's first save and left as it is by every later save,
\* and every save writes a snapshot tagged with the epoch count; without a
\* checkpoint root save() writes nothing, logs a warning and returns.
C9_ConfigJsonWrittenByFirstSave ==
    /\ ~IsNone(first_saved) =>
          fs_checkpoints[Val(checkpoint_dir)].config_json
              = Some(TFModelConfig_save(Val(first_saved)))
    /\ (lastOp.op = "save" /\ ~IsNone(checkpoint_dir)) =>
          [global_step |-> global_step, batch_step |-> batch_step]
              \in fs_checkpoints[Val(checkpoint_dir)].snaps
    /\ (lastOp.op = "save" /\ IsNone(checkpoint_dir)) =>
          /\ logged = <<"WARNING">>
          /\ lastOp.raised = "none"
          /\ IsNone(first_saved)

\* C10: constructing from a checkpoint path, any failure of the initialisation,
\* a config file that cannot be read or parsed included, leaves the instance
\* with the minimal config, the failure logged at error severity and the
\* exception re-raised; the model is never Ready after a failed config load.
C10_FailedCheckpointInitIsFailed ==
    (lastOp.op = "init" /\ lastOp.from = "checkpoint") =>
        /\ lastOp.load_failed => phase = "Failed"
        /\ phase = "Failed" =>
              /\ config = MinimalConfig
              /\ logged = <<"ERROR">>
              /\ lastOp.raised = lastOp.cause

\* C11: TFModelConfig.save and TFModelConfig.load return normally whatever
\* fails inside them: the failure of the try block (opening the file,
\* serializing, parsing, resolving a callable) is printed and no exception
\* reaches the caller.
C11_SaveLoadNeverPropagate ==
    call.op \in {"save", "load"} =>
        /\ call.raised = "none"
        /\ call.printed = call.failure

\* a load whose try block failed, after a save whose try block failed
C11_Witness ==
    /\ call.op = "load"
    /\ call.after_save
    /\ call.failure = "ValueError"
    /\ call.conf.hidden_activation = PyPartial("partial")

\* the document of a file holds an entry that encodes a callable
HasCallableEntry(file) ==
    /\ ~IsNone(file)
    /\ Val(file).valid
    /\ \E k \in DOMAIN Val(file).doc \ ScalarKeys :
          LET j == Val(file).doc[k]
          IN  Len(j.items) > 0 /\ j.of = "str" /\ j.items[1] = CALLABLE_TYPE

\* C12: on a runtime that cannot restore callables, the caller of load() of a
\* file with a callable-valued field observes a not-implemented error.
C12_LegacyLoadRaisesNotImplemented ==
    (call.op = "load" /\ call.legacy /\ HasCallableEntry(call.file)) =>
        call.raised = "NotImplementedError"

\* C14: on a runtime that restores callables, conf.save(path) to a writable
\* path followed by load(path) into a fresh config gives a config that holds
\* every field of conf: a callable field holds the same callable, every other
\* field, list-valued ones included, an equal value.
C14_ConfigRoundTrip ==
    (call.op = "load" /\ call.after_save /\ call.writable /\ ~call.legacy) =>
        \A k \in DOMAIN call.conf :
            /\ k \in DOMAIN call.loaded
            /\ IF k \notin ScalarKeys /\ call.conf[k].t = "callable"
               THEN /\ call.loaded[k].t = "callable"
                    /\ call.loaded[k].id = call.conf[k].id
               ELSE call.loaded[k] = call.conf[k]

\* the call just made logged one warning, raised nothing and left the summary
\* registry and the summary values as they were
IgnoredWithWarning ==
    /\ logged' = <<"WARNING">>
    /\ lastOp'.raised = "none"
    /\ summaries' = summaries
    /\ summary_values' = summary_values

\* C13: add_summary and write_summary with an invalid mode, and update_summary
\* with an unknown key, each log a warning, change neither the registry nor the
\* values, and return normally.
C13_InvalidSummaryArgsAreIgnored ==
    [][/\ (Called("add_summary") /\ lastOp'.mode \notin valid_summary_modes)
              => IgnoredWithWarning
       /\ (Called("write_summary") /\ lastOp'.which \notin valid_summary_modes)
              => IgnoredWithWarning
       /\ (Called("update_summary") /\ lastOp'.key \notin DOMAIN summary_values)
              => IgnoredWithWarning]_vars

\* C15 as stated: after write_summary(mode) every summary value of that mode
\* holds its initial value.
C15_WriteSummaryResetsValues ==
    [][(Called("write_summary") /\ lastOp'.which \in valid_summary_modes)
          => \A k \in DOMAIN summary_values' :
                summary_values'[k].mode = lastOp'.which
                    => summary_values'[k].value = "0.0"]_vars

\* C15 amended: write_summary(mode) hands the current values of the summaries
\* of that mode to the file writer, tagged with the mode's counter, and leaves
\* every summary value and the registry as they were: a value stays until the
\* next update_summary.
C15_WriteSummaryKeepsValues ==
    [][(Called("write_summary") /\ lastOp'.which \in valid_summary_modes)
          => /\ summary_values' = summary_values
             /\ summaries' = summaries
             /\ ~IsNone(summary_fwriter) =>
                   /\ ~IsNone(last_event')
                   /\ Val(last_event').which = lastOp'.which
                   /\ Val(last_event').step = IF lastOp'.which = "epoch"
                                               THEN global_step ELSE batch_step
                   /\ \A k \in DOMAIN summary_values :
                         summary_values[k].mode = lastOp'.which
                             => /\ k \in DOMAIN Val(last_event').values
                                /\ Val(last_event').values[k] = summary_values[k].value]_vars

\* a write_summary of the epoch summaries after an update_summary: the value
\* was handed to the writer and is still held
C15_Witness ==
    /\ lastOp.op = "write_summary"
    /\ lastOp.which = "epoch"
    /\ ~IsNone(last_event)
    /\ Val(last_event).values["epoch_train_loss"] = LossTrain
    /\ summary_values["epoch_train_loss"].value = LossTrain

\* C16: every train_step calls run_loss exactly when validation data is
\* present (validation arrays passed to train or train_step, or a validation
\* set among the data load_data supplied); without validation data run_loss is
\* not called and the validation loss returned is not-a-number.
C16_RunLossIffValidationData ==
    [][/\ Called("train_step") =>
             /\ lastOp'.run_loss_calls = IF lastOp'.validation THEN 1 ELSE 0
             /\ ~lastOp'.validation => lastOp'.validation_loss = NaN
       /\ (Called("train") /\ lastOp'.steps > 0) =>
             LET present == IF IsNone(trainset) THEN lastOp'.validation
                            ELSE Val(trainset).valid
             IN  /\ lastOp'.run_loss_calls = IF present THEN lastOp'.steps ELSE 0
                 /\ (~present /\ lastOp'.raised = "none")
                        => lastOp'.validation_loss = NaN]_vars

\* the effect of a save() during the step: with a checkpoint directory a
\* snapshot of the counters as they are when save() runs, tagged with the
\* epoch count; without one the warning
SaveInvoked ==
    IF IsNone(checkpoint_dir)
    THEN \E i \in 1..Len(logged') : logged'[i] = "WARNING"
    ELSE [global_step |-> global_step, batch_step |-> batch_step']
             \in fs_checkpoints'[Val(checkpoint_dir)].snaps

\* no save() during the step: the disk as it was and no warning
SaveNotInvoked ==
    /\ fs_checkpoints' = fs_checkpoints
    /\ \A i \in 1..Len(logged') : logged'[i] # "WARNING"

\* C17: every train() call invokes save() exactly when saver_interval is not
\* None and the epoch count before the increment is a multiple of it, the
\* snapshot tagged with that epoch count; with saver_interval None train()
\* never saves.
C17_TrainSavesEverySaverInterval ==
    [][(Called("train") /\ (lastOp'.given \/ ~IsNone(trainset))) =>
          IF ~IsNone(config.saver_interval) /\ global_step % Val(config.saver_interval) = 0
          THEN SaveInvoked
          ELSE SaveNotInvoked]_vars

\* the same for the train() calls that return
ReturningTrainSavesEverySaverInterval ==
    [][(Called("train") /\ lastOp'.raised = "none") =>
          IF ~IsNone(config.saver_interval) /\ global_step % Val(config.saver_interval) = 0
          THEN SaveInvoked
          ELSE SaveNotInvoked]_vars

\* C18: constructing a VAE from a config leaves the config's n_hidden as it
\* was given, the config.json save() writes holds the encoder layer sizes the
\* model was built with, and a model constructed from that config.json has the
\* encoder and decoder layers the original had.
C18_ConstructionKeepsNHidden ==
    /\ (lastOp.op = "init" /\ phase = "Ready") =>
          /\ config.n_hidden = lastOp.conf.n_hidden
          /\ graph.encoder = lastOp.conf.n_hidden.items
          /\ graph.decoder = Reversed(lastOp.conf.n_hidden.items)
    /\ (phase = "Ready" /\ ~IsNone(first_saved)) =>
          LET file == fs_checkpoints[Val(checkpoint_dir)].config_json
          IN  /\ ~IsNone(file)
              /\ Val(file).valid
              /\ Val(file).doc.n_hidden.items = graph.encoder
    /\ (lastOp.op = "rebuild" /\ phase = "Ready") => graph = lastOp.was

====
